---- MODULE Spec2Model ----
(***************************************************************************)
(* The multi-source market data aggregator (APIManagerService) with its    *)
(* per-source health records, retry loop with exponential backoff, mock    *)
(* fallback latch, health probes and source switching (Spec); the data     *)
(* methods of the exchange adapters (SpecAdapter); the dispatch of          *)
(* transformToFinancialData (SpecTransform); and the streaming hubs        *)
(* EnhancedWebSocketService and WebSocketService (SpecHub).                *)
(*                                                                         *)
(* A data call (getOrderbook / get24hTicker / getKlines) is an async       *)
(* function: it runs synchronously up to its first await and is suspended  *)
(* at `await operation()` (pc = "inflight") and at the backoff timer       *)
(* (pc = "backoff").  Every other aggregator operation may run while a     *)
(* call is suspended.  A health probe (healthCheck) is suspended at        *)
(* `await api.get24hTicker(...)`.                                          *)
(***************************************************************************)
EXTENDS Integers, FiniteSets, Sequences, TLC

VARIABLES
    apiHealth,       \* Map<APISource, APIHealth>
    currentSource,   \* APIManagerService.currentSource
    fallbackToMock,  \* APIManagerService.fallbackToMock
    calls,           \* one record per caller: the frame of its data call
    startFailures    \* history, per suspended call: consecutiveFailures of the
                     \* call's source when the call started; -1 once another
                     \* request or probe updated that source meanwhile

VARIABLES
    adapterCall,     \* the frame of one call of an exchange adapter's method
    lastTransform    \* history: the last call of transformToFinancialData,
                     \* its arguments and what it returned

VARIABLES
    service,          \* the class of the streaming hub object
    subscribers,      \* Map<string, Set<callback>>, sets in insertion order
    closures,         \* the unsubscribe closures subscribe has returned, each
                      \* by the (channel, callback) it captured
    connectionState,  \* EnhancedWebSocketService.connectionState
    isUsingMockData,  \* EnhancedWebSocketService.isUsingMockData
    lastOrderbook,    \* EnhancedWebSocketService.lastOrderbook
    mockDataInterval, \* EnhancedWebSocketService.mockDataInterval
    intervals,        \* the setInterval timers that have not been cleared
    reconnectTimers,  \* pending setTimeout callbacks of forceReconnect
    ws,               \* WebSocketService.ws: null or the socket's readyState
    delivery          \* history: the last run of notifySubscribers

VARIABLES
    lastKlines,       \* history: the last call of getKlines or generateKlines,
                      \* its arguments and what it returned
    currentOrderbook  \* the orderbook the synthetic stream holds, if any

VARIABLES
    sockets,            \* the WebSocket objects WebSocketService.connect has
                        \* made, each with its connect call's timeout and
                        \* promise
    wsField,            \* WebSocketService.ws: 0 for null, else a socket
    reconnectAttempts,  \* WebSocketService.reconnectAttempts
    reconnectTimeouts,  \* pending setTimeout callbacks of handleReconnect
    awaitingInfo        \* connect calls suspended in getWebSocketInfo

managerVars ==
    <<apiHealth, currentSource, fallbackToMock, calls, startFailures>>
adapterVars == <<adapterCall>>
transformVars == <<lastTransform>>
hubVars ==
    <<service, subscribers, closures, connectionState, isUsingMockData,
      lastOrderbook, mockDataInterval, intervals, reconnectTimers, ws,
      delivery>>

generatorVars == <<lastKlines, currentOrderbook>>
socketVars ==
    <<sockets, wsField, reconnectAttempts, reconnectTimeouts, awaitingInfo>>

vars ==
    <<managerVars, adapterVars, transformVars, hubVars, generatorVars,
      socketVars>>

-----------------------------------------------------------------------------
(* Program constants *)

MaxRetries == 3
BaseDelay == 1000
MaxDelay == 10000

PreferredOrder == <<"coinbase", "okx", "kucoin">>
Tracked == {PreferredOrder[i] : i \in 1..Len(PreferredOrder)}
APISource == {"coinbase", "okx", "kucoin", "mock"}
Operations == {"getOrderbook", "get24hTicker", "getKlines"}

(* Bounds of the model *)

\* failures are counted up to this value: a failing attempt or probe on a
\* source whose consecutiveFailures has reached it is not explored
MaxFailures == 4

\* the callers that can have a data call in progress
Callers == {1}

\* what a probe can measure as Date.now() - startTime
ResponseTimes == {150}

\* an optional number is a sequence of at most one number
Undefined == << >>
Some(x) == <<x>>

-----------------------------------------------------------------------------
(* The collaborators *)

NetOutcomes == {"ok", "networkError", "non2xx", "malformed"}
AdapterKinds == {"shipped", "propagating"}

\* the three shipped adapters: any failure inside the try block is caught
\* and answered with the adapter's own mock data
ShippedAdapter(net) ==
    IF net = "ok"
    THEN [kind |-> "resolve", data |-> "exchange"]
    ELSE [kind |-> "resolve", data |-> "adapterFallback"]

\* the operation handed to the retry loop is any promise-returning function:
\* one that lets its failure through rejects
PropagatingAdapter(net) ==
    IF net = "ok"
    THEN [kind |-> "resolve", data |-> "exchange"]
    ELSE [kind |-> "reject", data |-> "none"]

Operation(adapter, net) ==
    IF adapter = "shipped" THEN ShippedAdapter(net) ELSE PropagatingAdapter(net)

-----------------------------------------------------------------------------
(* Health tracking *)

InitialHealth(source) ==
    [source |-> source, isHealthy |-> TRUE, responseTime |-> Undefined, errorCount |-> 0, consecutiveFailures |-> 0]

MockFallbackRecomputed(h, flag) ==
    \A s \in DOMAIN h : h[s].consecutiveFailures >= MaxRetries

MockFallbackOnAnySource(h, flag) ==
    \E s \in DOMAIN h : h[s].consecutiveFailures >= MaxRetries

CheckAndEnableMockFallback(h, flag) ==
    LET allUnhealthy ==
            \A s \in DOMAIN h : h[s].consecutiveFailures >= MaxRetries
    IN  IF allUnhealthy /\ ~flag THEN TRUE ELSE flag

UpdatedRecordNotCounting(health, isHealthy, responseTime) ==
    [health EXCEPT
        !.isHealthy = isHealthy,
        !.responseTime = responseTime,
        !.errorCount = IF isHealthy THEN 0 ELSE 1,
        !.consecutiveFailures = IF isHealthy THEN 0 ELSE 1]

\* the health record after updateHealth(source, isHealthy, responseTime);
\* lastChecked, a Date.now() stamp that nothing reads, is not kept
UpdatedRecord(health, isHealthy, responseTime) ==
    [health EXCEPT
        !.isHealthy = isHealthy,
        !.responseTime = responseTime,
        !.errorCount = IF isHealthy THEN 0 ELSE health.errorCount + 1,
        !.consecutiveFailures =
            IF isHealthy THEN 0 ELSE health.consecutiveFailures + 1]

\* a variant that looks at the other sources one failure late
UpdateHealthCheckingLate(h, flag, source, isHealthy, responseTime) ==
    IF source \in DOMAIN h
    THEN LET h2 == [h EXCEPT ![source] =
                        UpdatedRecord(h[source], isHealthy, responseTime)]
         IN  [health |-> h2,
              mock |-> IF h2[source].consecutiveFailures > MaxRetries
                       THEN CheckAndEnableMockFallback(h2, flag)
                       ELSE flag]
    ELSE [health |-> h, mock |-> flag]

\* updateHealth: the new health map and the new mock flag
UpdateHealth(h, flag, source, isHealthy, responseTime) ==
    IF source \in DOMAIN h
    THEN LET h2 == [h EXCEPT ![source] =
                        UpdatedRecord(h[source], isHealthy, responseTime)]
         IN  [health |-> h2,
              mock |-> IF h2[source].consecutiveFailures >= MaxRetries
                       THEN CheckAndEnableMockFallback(h2, flag)
                       ELSE flag]
    ELSE [health |-> h, mock |-> flag]

\* a failing update is explored only below the bound
CanFail(source) ==
    source \in DOMAIN apiHealth =>
        apiHealth[source].consecutiveFailures < MaxFailures

-----------------------------------------------------------------------------
(* Retry with exponential backoff *)

RECURSIVE Pow2(_)
Pow2(n) == IF n = 0 THEN 1 ELSE 2 * Pow2(n - 1)

Min(a, b) == IF a < b THEN a ELSE b

BackoffDelayFromOne(attempt) == Min(BaseDelay * Pow2(attempt + 1), MaxDelay)

BackoffDelay(attempt) == Min(BaseDelay * Pow2(attempt), MaxDelay)

IdleCall ==
    [pc |-> "idle", source |-> "none", attempt |-> 0,
     invocations |-> 0, waited |-> 0, tag |-> "none", data |-> "none"]

\* the value a data call resolves with when it takes the mock generator
MockResult(frame) ==
    [frame EXCEPT !.pc = "returned", !.tag = "mock", !.data = "generator"]

\* a variant that tags the result with the source selected at the return
SourceResultOfSelection(frame, data) ==
    [frame EXCEPT !.pc = "returned", !.tag = currentSource, !.data = data]

\* the value a data call resolves with when the retry loop returned a result
SourceResult(frame, data) ==
    [frame EXCEPT !.pc = "returned", !.tag = frame.source, !.data = data]

\* the throw leaves the data call: its promise rejects
Rethrow(frame) == [frame EXCEPT !.pc = "rejected"]

\* the catch block of the data call: a throw of the retry loop becomes mock data
CatchFallback(frame) == MockResult(frame)

\* other suspended calls on the same source see their source updated
Disturb(c, source) ==
    [d \in Callers |->
        IF d # c /\ calls[d].pc \in {"inflight", "backoff"}
                 /\ calls[d].source = source
        THEN -1 ELSE startFailures[d]]

-----------------------------------------------------------------------------
(* Initial state: the constructor *)

ManagerInit ==
    /\ apiHealth = [s \in Tracked |-> InitialHealth(s)]
    /\ currentSource = "coinbase"
    /\ fallbackToMock = FALSE
    /\ calls = [c \in Callers |-> IdleCall]
    /\ startFailures = [c \in Callers |-> 0]

-----------------------------------------------------------------------------
(* Data calls: getOrderbook, get24hTicker, getKlines *)

\* the call reaches its first `await operation()` through source's adapter
AttemptsNetwork(flag, source, h) == ~flag /\ source \in DOMAIN h

\* a data call up to its first await or its return: the frame it is left in
StartCallIgnoringMockMode(flag, source, h) ==
    IF source \in DOMAIN h
    THEN [IdleCall EXCEPT !.pc = "inflight", !.source = source,
                          !.invocations = 1]
    ELSE MockResult([IdleCall EXCEPT !.source = source])

StartCall(flag, source, h) ==
    IF flag THEN MockResult(IdleCall)
    ELSE IF AttemptsNetwork(flag, source, h)
    THEN [IdleCall EXCEPT !.pc = "inflight", !.source = source,
                          !.invocations = 1]
    \* No health info for source: thrown before any attempt, and caught
    ELSE CatchFallback([IdleCall EXCEPT !.source = source])

\* a variant that fails over to the head of preferredOrder
GetAPIForSourcePreferred(source) == PreferredOrder[1]

\* getAPIForSource(source): the value `this.currentSource = source` assigns
GetAPIForSource(source) == source

\* getOrderbook, get24hTicker or getKlines is called
DataCall(c, op) ==
    /\ op \in Operations
    /\ calls[c].pc \in {"idle", "returned"}
    /\ LET frame == StartCall(fallbackToMock, currentSource, apiHealth)
       IN  /\ calls' = [calls EXCEPT ![c] = frame]
           /\ startFailures' = [startFailures EXCEPT ![c] =
                IF frame.pc = "inflight"
                THEN apiHealth[frame.source].consecutiveFailures ELSE 0]
           \* getAPIForSource(this.currentSource) assigns currentSource the
           \* value just read from it
           /\ currentSource' = GetAPIForSource(currentSource)
    /\ UNCHANGED <<apiHealth, fallbackToMock>>
    /\ UNCHANGED <<adapterVars, transformVars, hubVars,
                   generatorVars, socketVars>>

\* a variant that also waits after the last failed attempt
AttemptSettleWaitingAfterLast(c, adapter, net) ==
    /\ calls[c].pc = "inflight"
    /\ LET frame == calls[c]
           result == Operation(adapter, net)
           ok == result.kind = "resolve"
           upd == UpdateHealth(apiHealth, fallbackToMock, frame.source, ok,
                               Undefined)
       IN  /\ ok \/ CanFail(frame.source)
           /\ apiHealth' = upd.health
           /\ fallbackToMock' = upd.mock
           /\ startFailures' =
                [Disturb(c, frame.source) EXCEPT ![c] = IF ok THEN 0 ELSE @]
           /\ calls' = [calls EXCEPT ![c] =
                IF ok THEN SourceResult(frame, result.data)
                ELSE [frame EXCEPT !.pc = "backoff"]]
    /\ UNCHANGED currentSource
    /\ UNCHANGED <<adapterVars, transformVars, hubVars,
                   generatorVars, socketVars>>

\* `await operation()` settles: the body of one iteration of the retry loop
AttemptSettle(c, adapter, net) ==
    /\ calls[c].pc = "inflight"
    /\ LET frame == calls[c]
           result == Operation(adapter, net)
           ok == result.kind = "resolve"
           upd == UpdateHealth(apiHealth, fallbackToMock, frame.source, ok,
                               Undefined)
       IN  /\ ok \/ CanFail(frame.source)
           /\ apiHealth' = upd.health
           /\ fallbackToMock' = upd.mock
           /\ startFailures' =
                [Disturb(c, frame.source) EXCEPT ![c] =
                    IF ok \/ frame.attempt = MaxRetries - 1 THEN 0 ELSE @]
           /\ calls' = [calls EXCEPT ![c] =
                IF ok THEN SourceResult(frame, result.data)
                ELSE IF frame.attempt = MaxRetries - 1
                     THEN CatchFallback(frame)
                     ELSE [frame EXCEPT !.pc = "backoff"]]
    /\ UNCHANGED currentSource
    /\ UNCHANGED <<adapterVars, transformVars, hubVars,
                   generatorVars, socketVars>>

\* a variant that gives up as soon as mock mode is on
BackoffElapsedCheckingMock(c) ==
    /\ calls[c].pc = "backoff"
    /\ LET frame == calls[c]
           next == frame.attempt + 1
       IN  calls' = [calls EXCEPT ![c] =
                IF fallbackToMock THEN MockResult(frame)
                ELSE IF next < MaxRetries
                THEN [frame EXCEPT !.pc = "inflight", !.attempt = next,
                          !.waited = frame.waited + BackoffDelay(frame.attempt),
                          !.invocations = frame.invocations + 1]
                ELSE CatchFallback(frame)]
    /\ UNCHANGED <<apiHealth, currentSource, fallbackToMock, startFailures>>
    /\ UNCHANGED <<adapterVars, transformVars, hubVars,
                   generatorVars, socketVars>>

\* the backoff timer fires: the next iteration starts its attempt
BackoffElapsed(c) ==
    /\ calls[c].pc = "backoff"
    /\ LET frame == calls[c]
           next == frame.attempt + 1
       IN  calls' = [calls EXCEPT ![c] =
                IF next < MaxRetries
                THEN [frame EXCEPT !.pc = "inflight", !.attempt = next,
                          !.waited = frame.waited + BackoffDelay(frame.attempt),
                          !.invocations = frame.invocations + 1]
                \* `throw new Error('Max retries exceeded')`, caught
                ELSE CatchFallback(frame)]
    /\ UNCHANGED <<apiHealth, currentSource, fallbackToMock, startFailures>>
    /\ UNCHANGED <<adapterVars, transformVars, hubVars,
                   generatorVars, socketVars>>

-----------------------------------------------------------------------------
(* Health probes *)

\* healthCheck(source): nothing of the aggregator is read or written before
\* `await api.get24hTicker('BTCUSDT')`, so a probe is one step, taken when its
\* ticker request settles; the health map and the mock flag after it
HealthCheck(h, flag, source, adapter, net, responseTime) ==
    LET ok == Operation(adapter, net).kind = "resolve"
        upd == UpdateHealth(h, flag, source, ok,
                            IF ok THEN Some(responseTime) ELSE Undefined)
    \* `return true` after the try block, `return false` in the catch block
    IN  [health |-> upd.health, mock |-> upd.mock, returns |-> ok]

ProbeFails(adapter, net) == Operation(adapter, net).kind = "reject"

TestConnection(source, adapter, net, responseTime) ==
    /\ ProbeFails(adapter, net) => CanFail(source)
    /\ LET upd == HealthCheck(apiHealth, fallbackToMock, source, adapter, net,
                              responseTime)
       IN  /\ apiHealth' = upd.health
           /\ fallbackToMock' = upd.mock
    /\ startFailures' = Disturb(0, source)
    /\ UNCHANGED <<currentSource, calls>>
    /\ UNCHANGED <<adapterVars, transformVars, hubVars,
                   generatorVars, socketVars>>

\* refreshHealthStatus starts one healthCheck per source of preferredOrder
\* and awaits them all; it reads and writes nothing itself, and its probes
\* settle one by one, in any order and between any other steps: this is the
\* step in which the probe of `source` settles
RefreshHealthStatus(source, adapter, net, responseTime) ==
    /\ source \in Tracked
    /\ ProbeFails(adapter, net) => CanFail(source)
    /\ LET upd == HealthCheck(apiHealth, fallbackToMock, source, adapter, net,
                              responseTime)
       IN  /\ apiHealth' = upd.health
           /\ fallbackToMock' = upd.mock
    /\ startFailures' = Disturb(0, source)
    /\ UNCHANGED <<currentSource, calls>>
    /\ UNCHANGED <<adapterVars, transformVars, hubVars,
                   generatorVars, socketVars>>

-----------------------------------------------------------------------------
(* Source selection and mock mode *)

SwitchToAPI(source) ==
    /\ currentSource' =
        IF source \in Tracked THEN source ELSE currentSource
    /\ UNCHANGED <<apiHealth, fallbackToMock, calls, startFailures>>
    /\ UNCHANGED <<adapterVars, transformVars, hubVars,
                   generatorVars, socketVars>>

ForceSwitchKeepingMock(source) ==
    /\ currentSource' = source
    /\ UNCHANGED <<apiHealth, fallbackToMock, calls, startFailures>>
    /\ UNCHANGED <<adapterVars, transformVars, hubVars,
                   generatorVars, socketVars>>

ForceSwitch(source) ==
    /\ currentSource' = source
    /\ fallbackToMock' = FALSE
    /\ UNCHANGED <<apiHealth, calls, startFailures>>
    /\ UNCHANGED <<adapterVars, transformVars, hubVars,
                   generatorVars, socketVars>>

EnableMockMode ==
    /\ fallbackToMock' = TRUE
    /\ UNCHANGED <<apiHealth, currentSource, calls, startFailures>>
    /\ UNCHANGED <<adapterVars, transformVars, hubVars,
                   generatorVars, socketVars>>

DisableMockMode ==
    /\ fallbackToMock' = FALSE
    /\ UNCHANGED <<apiHealth, currentSource, calls, startFailures>>
    /\ UNCHANGED <<adapterVars, transformVars, hubVars,
                   generatorVars, socketVars>>

-----------------------------------------------------------------------------
(* Exchange adapters: CoinbaseAPIService, OKXAPIService, KuCoinAPIService. *)
(* Each data method is `try { fetch; status check; json(); decode }        *)
(* catch { return own mock }`; it is suspended at `await fetch(...)`       *)
(* (pc = "fetching") and at `await response.json()` (pc = "parsing").      *)

Symbols == {"BTCUSDT", "ETHUSDT"}

\* what the exchange answers: like NetOutcomes, and a 2xx answer whose JSON
\* body carries an error instead of the payload
ResponseOutcomes == NetOutcomes \cup {"errorCoded"}

\* formatSymbol of each adapter
FormatSymbol(exchange, symbol) ==
    LET base == IF symbol = "BTCUSDT" THEN "BTC" ELSE "ETH"
    IN  IF exchange = "coinbase" THEN <<base, "-USD">> ELSE <<base, "-USDT">>

\* the fetch calls one invocation of a method issues
Fetches(exchange, op) ==
    IF exchange = "coinbase" /\ op = "get24hTicker" THEN 2 ELSE 1

IdleAdapterCall ==
    [pc |-> "idle", exchange |-> "none", op |-> "none", symbol |-> "none",
     fetches |-> 0, net |-> "none", result |-> "none", symbolOut |-> << >>]

\* the catch block: `return this.getMock...(symbol)`
AdapterCatch(frame) ==
    [frame EXCEPT !.pc = "resolved", !.result = "adapterFallback",
                  !.symbolOut = <<frame.symbol>>]

\* the statements after `await response.json()` on a body that parsed:
\* OKX tests data.code; KuCoin reads fields of result.data, which is
\* undefined in an error body; Coinbase calls data.bids.slice and data.map,
\* but get24hTicker only reads fields and parses them
Decode(exchange, op, net) ==
    IF net = "ok" THEN "exchange"
    ELSE IF exchange = "coinbase" /\ op = "get24hTicker" THEN "garbled"
    ELSE "throw"

AdapterInit == adapterCall = IdleAdapterCall

\* a data method of an adapter is called: it runs up to `await fetch(...)`
AdapterMethodCalled(exchange, op, symbol) ==
    /\ adapterCall.pc \in {"idle", "resolved"}
    /\ adapterCall' =
        [IdleAdapterCall EXCEPT !.pc = "fetching", !.exchange = exchange,
                                !.op = op, !.symbol = symbol,
                                !.fetches = Fetches(exchange, op)]
    /\ UNCHANGED <<managerVars, transformVars, hubVars,
                   generatorVars, socketVars>>

\* fetch settles: it rejects on a network error, and `!response.ok` throws
FetchSettles(net) ==
    /\ adapterCall.pc = "fetching"
    /\ adapterCall' =
        IF net \in {"networkError", "non2xx"}
        THEN AdapterCatch([adapterCall EXCEPT !.net = net])
        ELSE [adapterCall EXCEPT !.pc = "parsing", !.net = net]
    /\ UNCHANGED <<managerVars, transformVars, hubVars,
                   generatorVars, socketVars>>

\* response.json() settles: it rejects on a body that is not JSON
BodyParsed ==
    /\ adapterCall.pc = "parsing"
    /\ LET frame == adapterCall
           decoded == Decode(frame.exchange, frame.op, frame.net)
       IN  adapterCall' =
            IF frame.net = "malformed" \/ decoded = "throw"
            THEN AdapterCatch(frame)
            ELSE [frame EXCEPT
                    !.pc = "resolved", !.result = decoded,
                    !.symbolOut =
                        IF frame.exchange = "kucoin"
                        THEN FormatSymbol(frame.exchange, frame.symbol)
                        ELSE <<frame.symbol>>]
    /\ UNCHANGED <<managerVars, transformVars, hubVars,
                   generatorVars, socketVars>>

AdapterNext ==
    \/ \E e \in Tracked, op \in Operations, sym \in Symbols :
            AdapterMethodCalled(e, op, sym)
    \/ \E n \in ResponseOutcomes : FetchSettles(n)
    \/ BodyParsed

-----------------------------------------------------------------------------
(* transformToFinancialData *)

\* a parsed number, as a fraction with a positive denominator
Number(n) == [num |-> n, den |-> 1]

Quotient(n, d) == [num |-> n, den |-> d]

SameNumber(a, b) == a.num * b.den = b.num * a.den

Abs(a) == [a EXCEPT !.num = IF a.num < 0 THEN -a.num ELSE a.num]

\* Math.min(volume / 1000, 100)
CappedLiquidity(volume) ==
    IF volume < 100 * 1000 THEN Quotient(volume, 1000) ELSE Number(100)

MaxKlines == 1

Candles ==
    { [open |-> 100, high |-> 110, low |-> 90, close |-> 105, volume |-> 2000],
      [open |-> 50, high |-> 50, low |-> 50, close |-> 50, volume |-> 0] }

KlineSeries ==
    UNION { [1..n -> Candles] : n \in 0..MaxKlines }

Tickers == {"ticker"}

\* CoinbaseAPIService.transformToFinancialData
CoinbaseTransform(ticker, klines) ==
    [i \in DOMAIN klines |->
        LET k == klines[i]
        IN  [volatility |-> Quotient((k.high - k.low) * 100, k.open),
             performance |-> Quotient((k.close - k.open) * 100, k.open),
             volume |-> Number(k.volume), price |-> Number(k.close),
             liquidity |-> Number(k.volume * k.close),
             high |-> Number(k.high), low |-> Number(k.low),
             open |-> Number(k.open), close |-> Number(k.close)]]

\* OKXAPIService.transformToFinancialData
OKXTransform(ticker, klines) ==
    [i \in DOMAIN klines |->
        LET k == klines[i]
        IN  [volatility |-> Quotient((k.high - k.low) * 100, k.open),
             performance |-> Quotient((k.close - k.open) * 100, k.open),
             volume |-> Number(k.volume), price |-> Number(k.close),
             liquidity |-> Number(k.volume * k.close),
             high |-> Number(k.high), low |-> Number(k.low),
             open |-> Number(k.open), close |-> Number(k.close)]]

\* KuCoinAPIService.transformToFinancialData
KuCoinTransform(ticker, klines) ==
    [i \in DOMAIN klines |->
        LET k == klines[i]
        IN  [volatility |-> Abs(Quotient((k.high - k.low) * 100, k.open)),
             performance |-> Quotient((k.close - k.open) * 100, k.open),
             volume |-> Number(k.volume), price |-> Number(k.close),
             liquidity |-> CappedLiquidity(k.volume),
             high |-> Number(k.high), low |-> Number(k.low),
             open |-> Number(k.open), close |-> Number(k.close)]]

\* MockDataService.transformToFinancialData
MockTransform(ticker, klines) ==
    [i \in DOMAIN klines |->
        LET k == klines[i]
        IN  [volatility |-> Abs(Quotient((k.high - k.low) * 100, k.open)),
             performance |-> Quotient((k.close - k.open) * 100, k.open),
             volume |-> Number(k.volume), price |-> Number(k.close),
             liquidity |-> CappedLiquidity(k.volume),
             high |-> Number(k.high), low |-> Number(k.low),
             open |-> Number(k.open), close |-> Number(k.close)]]

\* getAPIService(source), by the name of the adapter it returns
GetAPIService(source) ==
    CASE source = "coinbase" -> "coinbase"
      [] source = "okx" -> "okx"
      [] source = "kucoin" -> "kucoin"
      [] OTHER -> "kucoin"

\* APIManagerService.transformToFinancialData
TransformToFinancialData(flag, source, ticker, klines) ==
    IF flag THEN MockTransform(ticker, klines)
    ELSE CASE GetAPIService(source) = "coinbase" ->
                    CoinbaseTransform(ticker, klines)
           [] GetAPIService(source) = "okx" -> OKXTransform(ticker, klines)
           [] OTHER -> KuCoinTransform(ticker, klines)

FinancialFields ==
    {"volatility", "performance", "volume", "price", "liquidity", "high",
     "low", "open", "close"}

\* two outputs are the same list of the same numbers
SameOutput(a, b) ==
    /\ DOMAIN a = DOMAIN b
    /\ \A i \in DOMAIN a, f \in FinancialFields : SameNumber(a[i][f], b[i][f])

TransformInit == lastTransform = << >>

\* transformToFinancialData(ticker, klines) is called on the aggregator
Transform(ticker, klines) ==
    /\ lastTransform' =
        <<[ticker |-> ticker, klines |-> klines,
           output |-> TransformToFinancialData(fallbackToMock, currentSource,
                                               ticker, klines)]>>
    /\ UNCHANGED <<managerVars, adapterVars, hubVars,
                   generatorVars, socketVars>>

TransformNext ==
    \/ \E t \in Tickers, k \in KlineSeries : Transform(t, k)
    \/ \E s \in Tracked, a \in AdapterKinds, n \in NetOutcomes,
          rt \in ResponseTimes : TestConnection(s, a, n, rt)
    \/ \E s \in APISource : SwitchToAPI(s)
    \/ \E s \in APISource : ForceSwitch(s)
    \/ EnableMockMode
    \/ DisableMockMode

-----------------------------------------------------------------------------
(* Streaming hubs: EnhancedWebSocketService and WebSocketService.  Both    *)
(* keep a map from channel name to a set of callbacks; the model follows   *)
(* one hub object, of either class.                                        *)

Services == {"EnhancedWebSocketService", "WebSocketService"}

Channels == {"orderbook", "connection"}

\* the callbacks of useRealtimeData and of useWebSocketHealth
Callbacks == {"ui", "health"}

MaxIntervals == 2
MaxUpdates == 2
MaxReconnectTimers == 1

\* a channel without entry in the map
NoSet == [has |-> FALSE, callbacks |-> << >>]

Members(set) == {set.callbacks[i] : i \in DOMAIN set.callbacks}

Registered(subs, channel, cb) ==
    subs[channel].has /\ cb \in Members(subs[channel])

\* Set.add: a callback already in the set keeps its place
Add(set, cb) ==
    [has |-> TRUE,
     callbacks |-> IF cb \in Members(set) THEN set.callbacks
                   ELSE Append(set.callbacks, cb)]

\* Set.delete
Delete(set, cb) ==
    [set EXCEPT !.callbacks = SelectSeq(set.callbacks, LAMBDA x : x # cb)]

\* subscribe(channel, callback), up to its return
SubscribeTo(subs, channel, cb) ==
    [subs EXCEPT ![channel] = Add(subs[channel], cb)]

\* a variant that drops the channel's whole set
UnsubscribeDroppingChannel(subs, channel, cb) ==
    [subs EXCEPT ![channel] = NoSet]

\* the closure subscribe(channel, callback) returns
UnsubscribeFrom(subs, channel, cb) ==
    IF ~subs[channel].has THEN subs
    ELSE LET rest == Delete(subs[channel], cb)
         IN  [subs EXCEPT ![channel] =
                IF Len(rest.callbacks) = 0 THEN NoSet ELSE rest]

\* this.subscribers.clear()
Cleared == [ch \in Channels |-> NoSet]

\* what is published
ConnectionEvent == [kind |-> "connection", updates |-> 0]
DepthUpdate == [kind |-> "depthUpdate", updates |-> 0]

\* mockDataService.generateOrderbook(symbol): a fresh book
GenerateOrderbook == [kind |-> "orderbook", updates |-> 0]

\* a variant that generates a fresh book at every tick
GenerateAnew(book) == GenerateOrderbook

\* mockDataService.generateRealtimeUpdate(book): book, perturbed once more
GenerateRealtimeUpdate(book) == [book EXCEPT !.updates = book.updates + 1]

NoDelivery ==
    [channel |-> "none", invoked |-> << >>, escaped |-> FALSE,
     data |-> [kind |-> "none", updates |-> 0]]

\* the callbacks up to and including the first that throws
UpToFirstThrow(cbs, throwers) ==
    LET thrown == {i \in DOMAIN cbs : cbs[i] \in throwers}
    IN  IF thrown = {} THEN cbs
        ELSE SubSeq(cbs, 1, CHOOSE i \in thrown : \A j \in thrown : i <= j)

\* notifySubscribers(channel, data) when the callbacks of throwers throw:
\* EnhancedWebSocketService wraps each call in try/catch, WebSocketService
\* calls them in a bare forEach
NotifySubscribers(class, subs, channel, data, throwers) ==
    LET cbs == subs[channel].callbacks
    IN  IF ~subs[channel].has
        THEN [NoDelivery EXCEPT !.channel = channel, !.data = data]
        ELSE IF class = "EnhancedWebSocketService"
        THEN [channel |-> channel, invoked |-> cbs, escaped |-> FALSE,
              data |-> data]
        ELSE [channel |-> channel,
              invoked |-> UpToFirstThrow(cbs, throwers),
              escaped |-> \E i \in DOMAIN cbs : cbs[i] \in throwers,
              data |-> data]

\* a hub object of the given class after construction
HubInit(class) ==
    /\ service = class
    /\ subscribers = Cleared
    /\ closures = {}
    /\ connectionState = "disconnected"
    /\ isUsingMockData = FALSE
    /\ lastOrderbook = Undefined
    /\ mockDataInterval = Undefined
    /\ intervals = {}
    /\ reconnectTimers = 0
    /\ ws = "null"
    /\ delivery = NoDelivery

\* subscribe(channel, callback) of either class
Subscribe(channel, cb) ==
    /\ subscribers' = SubscribeTo(subscribers, channel, cb)
    /\ closures' = closures \cup {<<channel, cb>>}
    /\ UNCHANGED <<service, connectionState, isUsingMockData, lastOrderbook,
                   mockDataInterval, intervals, reconnectTimers, ws, delivery>>
    /\ UNCHANGED <<managerVars, adapterVars, transformVars,
                   generatorVars, socketVars>>

\* a closure returned by subscribe(channel, callback) is called
Unsubscribe(channel, cb) ==
    /\ <<channel, cb>> \in closures
    /\ subscribers' = UnsubscribeFrom(subscribers, channel, cb)
    /\ UNCHANGED <<service, closures, connectionState, isUsingMockData,
                   lastOrderbook, mockDataInterval, intervals,
                   reconnectTimers, ws, delivery>>
    /\ UNCHANGED <<managerVars, adapterVars, transformVars,
                   generatorVars, socketVars>>

\* enableMockDataMode and startMockDataSimulation: the interval handle is
\* overwritten, an interval it held before is not cleared
EnableMockDataMode(throwers) ==
    /\ Cardinality(intervals) < MaxIntervals
    /\ isUsingMockData' = TRUE
    /\ connectionState' = "connected"
    /\ lastOrderbook' = Some(GenerateOrderbook)
    /\ LET id == CHOOSE i \in 1..MaxIntervals : i \notin intervals
       IN  /\ mockDataInterval' = Some(id)
           /\ intervals' = intervals \cup {id}
    /\ delivery' = NotifySubscribers(service, subscribers, "connection",
                                     ConnectionEvent, throwers)

\* EnhancedWebSocketService.connect(symbol)
Connect(throwers) ==
    /\ service = "EnhancedWebSocketService"
    /\ EnableMockDataMode(throwers)
    /\ UNCHANGED <<service, subscribers, closures, reconnectTimers, ws>>
    /\ UNCHANGED <<managerVars, adapterVars, transformVars,
                   generatorVars, socketVars>>

\* the callback of a setInterval timer of startMockDataSimulation runs
Tick(id, throwers) ==
    /\ id \in intervals
    /\ IF lastOrderbook # Undefined
       THEN /\ lastOrderbook[1].updates < MaxUpdates
            /\ lastOrderbook' = Some(GenerateRealtimeUpdate(lastOrderbook[1]))
            /\ delivery' = NotifySubscribers(service, subscribers, "orderbook",
                                             lastOrderbook'[1], throwers)
       ELSE UNCHANGED <<lastOrderbook, delivery>>
    /\ UNCHANGED <<service, subscribers, closures, connectionState,
                   isUsingMockData, mockDataInterval, intervals,
                   reconnectTimers, ws>>
    /\ UNCHANGED <<managerVars, adapterVars, transformVars,
                   generatorVars, socketVars>>

\* the body of EnhancedWebSocketService.disconnect(); ws and pingInterval
\* are never assigned, so their branches do nothing
DisconnectBody ==
    /\ intervals' = intervals \ {mockDataInterval[i] : i \in DOMAIN mockDataInterval}
    /\ mockDataInterval' = Undefined
    /\ connectionState' = "disconnected"
    /\ subscribers' = Cleared
    /\ isUsingMockData' = FALSE

\* EnhancedWebSocketService.disconnect()
Disconnect ==
    /\ service = "EnhancedWebSocketService"
    /\ DisconnectBody
    /\ UNCHANGED <<service, closures, lastOrderbook, reconnectTimers, ws,
                   delivery>>
    /\ UNCHANGED <<managerVars, adapterVars, transformVars,
                   generatorVars, socketVars>>

\* EnhancedWebSocketService.forceReconnect(symbol), up to its return
ForceReconnect ==
    /\ service = "EnhancedWebSocketService"
    /\ reconnectTimers < MaxReconnectTimers
    /\ DisconnectBody
    /\ reconnectTimers' = reconnectTimers + 1
    /\ UNCHANGED <<service, closures, lastOrderbook, ws, delivery>>
    /\ UNCHANGED <<managerVars, adapterVars, transformVars,
                   generatorVars, socketVars>>

\* the setTimeout callback of forceReconnect runs: this.connect(symbol)
ReconnectTimerFires(throwers) ==
    /\ service = "EnhancedWebSocketService"
    /\ reconnectTimers > 0
    /\ reconnectTimers' = reconnectTimers - 1
    /\ EnableMockDataMode(throwers)
    /\ UNCHANGED <<service, subscribers, closures, ws>>
    /\ UNCHANGED <<managerVars, adapterVars, transformVars,
                   generatorVars, socketVars>>

\* WebSocketService.connect(symbol) up to `new WebSocket(url)`; when
\* getWebSocketInfo fails the promise rejects and no socket is created
SocketConnect(infoOk) ==
    /\ service = "WebSocketService"
    /\ ws' = IF infoOk THEN "connecting" ELSE ws
    /\ UNCHANGED <<service, subscribers, closures, connectionState,
                   isUsingMockData, lastOrderbook, mockDataInterval,
                   intervals, reconnectTimers, delivery>>
    /\ UNCHANGED <<managerVars, adapterVars, transformVars,
                   generatorVars, socketVars>>

\* ws.onopen
SocketOpens ==
    /\ service = "WebSocketService"
    /\ ws = "connecting"
    /\ ws' = "open"
    /\ UNCHANGED <<service, subscribers, closures, connectionState,
                   isUsingMockData, lastOrderbook, mockDataInterval,
                   intervals, reconnectTimers, delivery>>
    /\ UNCHANGED <<managerVars, adapterVars, transformVars,
                   generatorVars, socketVars>>

\* ws.onmessage: a level2 message is published to 'orderbook', any other
\* message is dropped; the handler's try/catch ends what a subscriber throws
SocketMessage(level2, throwers) ==
    /\ service = "WebSocketService"
    /\ ws = "open"
    /\ delivery' =
        IF level2
        THEN NotifySubscribers(service, subscribers, "orderbook", DepthUpdate,
                               throwers)
        ELSE delivery
    /\ UNCHANGED <<service, subscribers, closures, connectionState,
                   isUsingMockData, lastOrderbook, mockDataInterval,
                   intervals, reconnectTimers, ws>>
    /\ UNCHANGED <<managerVars, adapterVars, transformVars,
                   generatorVars, socketVars>>

\* WebSocketService.disconnect()
SocketDisconnect ==
    /\ service = "WebSocketService"
    /\ ws' = "null"
    /\ subscribers' = Cleared
    /\ UNCHANGED <<service, closures, connectionState, isUsingMockData,
                   lastOrderbook, mockDataInterval, intervals,
                   reconnectTimers, delivery>>
    /\ UNCHANGED <<managerVars, adapterVars, transformVars,
                   generatorVars, socketVars>>

HubNext ==
    \/ \E ch \in Channels, cb \in Callbacks : Subscribe(ch, cb)
    \/ \E ch \in Channels, cb \in Callbacks : Unsubscribe(ch, cb)
    \/ \E t \in SUBSET Callbacks : Connect(t)
    \/ \E id \in 1..MaxIntervals, t \in SUBSET Callbacks : Tick(id, t)
    \/ Disconnect
    \/ ForceReconnect
    \/ \E t \in SUBSET Callbacks : ReconnectTimerFires(t)
    \/ \E ok \in BOOLEAN : SocketConnect(ok)
    \/ SocketOpens
    \/ \E level2 \in BOOLEAN, t \in SUBSET Callbacks : SocketMessage(level2, t)
    \/ SocketDisconnect

-----------------------------------------------------------------------------
(* Klines: the synthetic generator and getKlines of the adapters *)

Exchanges == {"coinbase", "okx", "kucoin"}

MaxLimit == 3

\* 24 * 60 * 60 * 1000
DayMs == 86400000

DaySeconds == 86400

\* the interval argument, in KuCoin's and in OKX's spelling
Intervals == {"1day", "1hour", "1D", "1H"}

\* whether the exchange knows the interval it is asked for; Coinbase is
\* always asked for granularity=86400
Serves(exchange, interval) ==
    CASE exchange = "coinbase" -> TRUE
      [] exchange = "kucoin" -> interval \in {"1day", "1hour"}
      [] exchange = "okx" -> interval \in {"1D", "1H"}

\* seconds between two candles of the answer
CandleSeconds(exchange, interval) ==
    IF exchange = "coinbase" \/ interval \in {"1day", "1D"}
    THEN DaySeconds
    ELSE 3600

\* start of the newest candle, seconds after a reference instant
NewestTimes == {3 * 86400, 3 * 86400 + 3600}

\* Date.now(), milliseconds after the same instant
Nows == {3 * 86400000, 3 * 86400000 + 1}

\* candle[0] of the answer's rows, newest first: seconds for Coinbase and
\* KuCoin, milliseconds for OKX
ExchangeCandles(exchange, interval, count, newest) ==
    [i \in 1..count |->
        LET seconds == newest - (i - 1) * CandleSeconds(exchange, interval)
        IN  IF exchange = "okx" THEN seconds * 1000 ELSE seconds]

Reverse(seq) == [i \in 1..Len(seq) |-> seq[Len(seq) + 1 - i]]

\* data.map(...).reverse() of CoinbaseAPIService.getKlines
CoinbaseGetKlines(data) ==
    Reverse([i \in 1..Len(data) |->
        [openTime |-> data[i] * 1000,
         closeTime |-> (data[i] + 86400) * 1000]])

\* data.map(...).reverse() of OKXAPIService.getKlines
OKXGetKlines(data) ==
    Reverse([i \in 1..Len(data) |->
        [openTime |-> data[i],
         closeTime |-> data[i] + 24 * 60 * 60 * 1000]])

\* data.reverse().map(...) of KuCoinAPIService.getKlines
KuCoinGetKlines(data) ==
    LET reversed == Reverse(data)
    IN  [i \in 1..Len(reversed) |->
            [openTime |-> reversed[i] * 1000,
             closeTime |-> (reversed[i] + 86400) * 1000 - 1]]

\* MockDataService.generateKlines and KuCoinAPIService.getMockKlines: the
\* times of the klines (index i - 1 in the code); the interval is not used
GenerateKlines(limit, now) ==
    [i \in 1..limit |->
        LET time == now - (limit - (i - 1) - 1) * DayMs
        IN  [openTime |-> time, closeTime |-> time + DayMs - 1]]

\* getMockKlines of CoinbaseAPIService and of OKXAPIService
GetMockKlines(limit, now) ==
    [i \in 1..limit |->
        LET openTime == now - (limit - (i - 1)) * DayMs
        IN  [openTime |-> openTime, closeTime |-> openTime + DayMs]]

\* what the adapter makes of the exchange's rows
DecodeKlines(exchange, data) ==
    CASE exchange = "coinbase" -> CoinbaseGetKlines(data)
      [] exchange = "okx" -> OKXGetKlines(data)
      [] exchange = "kucoin" -> KuCoinGetKlines(data)

\* the adapter's own synthetic klines
FallbackKlines(exchange, limit, now) ==
    IF exchange = "kucoin"
    THEN GenerateKlines(limit, now)
    ELSE GetMockKlines(limit, now)

\* getKlines(symbol, interval, limit) of an adapter, from call to return:
\* the exchange answers `count` candles, or the request fails and the catch
\* block returns the adapter's mock klines
GetKlines(exchange, interval, limit, net, count, newest, now) ==
    LET answered == net = "ok" /\ Serves(exchange, interval)
        klines ==
            IF answered
            THEN DecodeKlines(exchange,
                    ExchangeCandles(exchange, interval, count, newest))
            ELSE FallbackKlines(exchange, limit, now)
    IN  /\ lastKlines' =
            Some([source |-> exchange, interval |-> interval,
                  limit |-> limit, answered |-> answered,
                  count |-> IF answered THEN count ELSE 0,
                  klines |-> klines])
        /\ UNCHANGED currentOrderbook
        /\ UNCHANGED <<managerVars, adapterVars, transformVars, hubVars,
                       socketVars>>

\* mockDataService.generateKlines(symbol, interval, limit)
GenerateKlinesCalled(interval, limit, now) ==
    /\ lastKlines' =
        Some([source |-> "mock", interval |-> interval, limit |-> limit,
              answered |-> FALSE, count |-> 0,
              klines |-> GenerateKlines(limit, now)])
    /\ UNCHANGED currentOrderbook
    /\ UNCHANGED <<managerVars, adapterVars, transformVars, hubVars,
                   socketVars>>

KlinesNext ==
    \/ \E e \in Exchanges, iv \in Intervals, limit \in 1..MaxLimit,
          net \in NetOutcomes, count \in 1..MaxLimit, newest \in NewestTimes,
          now \in Nows : GetKlines(e, iv, limit, net, count, newest, now)
    \/ \E iv \in Intervals, limit \in 1..MaxLimit, now \in Nows :
            GenerateKlinesCalled(iv, limit, now)

-----------------------------------------------------------------------------
(* Orderbooks of the synthetic generator.  Prices are counted in cents, as
   toFixed(2) writes them; a level's quantity plays no part in the order of
   the book and is left out.  Math.random() returns a number of quarters. *)

Levels == 20

VariedOnGeneration == 2
VariedOnUpdate == 1
MaxBookUpdates == 2

\* basePrice = 45000 + (Math.random() - 0.5) * 10000, in cents
BasePrices == {4500000}

\* quarters Math.random() returns for the levels that vary
GenerationDraws == {1, 2}
UpdateDraws == {0, 2, 3}

\* one draw for each level: the first `varied` levels draw from `draws`,
\* the others draw 1/2
DrawVectors(varied, draws) ==
    {[i \in 1..Levels |-> IF i <= varied THEN g[i] ELSE 2] :
        g \in [1..varied -> draws]}

RECURSIVE SortAscending(_)
SortAscending(seq) ==
    IF Len(seq) <= 1
    THEN seq
    ELSE LET rest == SortAscending(Tail(seq))
             x == Head(seq)
             k == Cardinality({i \in 1..Len(rest) : rest[i] < x})
         IN  SubSeq(rest, 1, k) \o <<x>> \o SubSeq(rest, k + 1, Len(rest))

SortDescending(seq) == Reverse(SortAscending(seq))

\* spread / 2 with spread = basePrice * 0.0002
HalfSpread(basePrice) == basePrice \div 10000

\* (i + 1) * Math.random() * 50 for the level of index i - 1
LevelOffset(i, draw) == (i * draw * 5000) \div 4

\* MockDataService.generateOrderbook
GenerateOrderbookLevels(basePrice, bidDraws, askDraws) ==
    [bids |-> SortDescending([i \in 1..Levels |->
                basePrice - HalfSpread(basePrice)
                    - LevelOffset(i, bidDraws[i])]),
     asks |-> SortAscending([i \in 1..Levels |->
                basePrice + HalfSpread(basePrice)
                    + LevelOffset(i, askDraws[i])]),
     updates |-> 0]

\* x / 4000 rounded to the nearest integer
Rounded4000(x) == (2 * x + 4000) \div 8000

\* (parseFloat(price) * (1 + (Math.random() - 0.5) * 0.001)).toFixed(2)
Perturbed(price, draw) == price + Rounded4000(price * (draw - 2))

\* MockDataService.generateRealtimeUpdate with a current orderbook
GenerateRealtimeUpdateLevels(book, bidDraws, askDraws) ==
    [bids |-> SortDescending([i \in 1..Len(book.bids) |->
                Perturbed(book.bids[i], bidDraws[i])]),
     asks |-> SortAscending([i \in 1..Len(book.asks) |->
                Perturbed(book.asks[i], askDraws[i])]),
     updates |-> book.updates + 1]

\* mockDataService.generateOrderbook(symbol)
GenerateOrderbookCalled(basePrice, bidDraws, askDraws) ==
    /\ currentOrderbook' =
        Some(GenerateOrderbookLevels(basePrice, bidDraws, askDraws))
    /\ UNCHANGED lastKlines
    /\ UNCHANGED <<managerVars, adapterVars, transformVars, hubVars,
                   socketVars>>

\* mockDataService.generateRealtimeUpdate(currentOrderbook), whose result
\* becomes the current orderbook
GenerateRealtimeUpdateCalled(basePrice, genBids, genAsks, bids, asks) ==
    /\ \A i \in 1..Len(currentOrderbook) :
            currentOrderbook[i].updates < MaxBookUpdates
    /\ currentOrderbook' =
        IF currentOrderbook = Undefined
        THEN Some(GenerateOrderbookLevels(basePrice, genBids, genAsks))
        ELSE Some(GenerateRealtimeUpdateLevels(currentOrderbook[1], bids,
                                               asks))
    /\ UNCHANGED lastKlines
    /\ UNCHANGED <<managerVars, adapterVars, transformVars, hubVars,
                   socketVars>>

OrderbookNext ==
    \/ \E b \in BasePrices,
          bd \in DrawVectors(VariedOnGeneration, GenerationDraws),
          ad \in DrawVectors(VariedOnGeneration, GenerationDraws) :
            GenerateOrderbookCalled(b, bd, ad)
    \/ \E b \in BasePrices,
          gb \in DrawVectors(VariedOnGeneration, GenerationDraws),
          ga \in DrawVectors(VariedOnGeneration, GenerationDraws),
          bd \in DrawVectors(VariedOnUpdate, UpdateDraws),
          ad \in DrawVectors(VariedOnUpdate, UpdateDraws) :
            GenerateRealtimeUpdateCalled(b, gb, ga, bd, ad)

GeneratorInit ==
    /\ lastKlines = Undefined
    /\ currentOrderbook = Undefined

-----------------------------------------------------------------------------
(* The sockets of WebSocketService.  The hub section follows this.ws as far
   as publication needs it; here every WebSocket object connect has made is
   followed from `new WebSocket(url)` to its close event, with the timeout
   and the promise of the connect call that made it.  A closed socket no
   field refers to any more is forgotten. *)

MaxReconnectAttempts == 5

MaxSockets == 2
MaxAwaiting == 1
MaxReconnectTimeouts == 2

Slots == 1..MaxSockets

NoSocket ==
    [readyState |-> "none", timeout |-> "cleared", promise |-> "pending",
     opened |-> FALSE, explicit |-> FALSE]

\* `new WebSocket(url)` with the setTimeout and the Promise around it
NewSocket ==
    [readyState |-> "CONNECTING", timeout |-> "pending",
     promise |-> "pending", opened |-> FALSE, explicit |-> FALSE]

Live(socket) == socket.readyState \in {"CONNECTING", "OPEN", "CLOSING"}

\* closed sockets that this.ws does not refer to are forgotten
Forget(socks, field) ==
    [s \in Slots |->
        IF socks[s].readyState = "CLOSED" /\ field # s
        THEN NoSocket
        ELSE socks[s]]

\* resolve() and reject() settle a promise once
Settle(socket, how) ==
    IF socket.promise = "pending"
    THEN [socket EXCEPT !.promise = how]
    ELSE socket

\* WebSocket.close()
Close(socket, byDisconnect) ==
    IF socket.readyState \in {"CONNECTING", "OPEN"}
    THEN [socket EXCEPT !.readyState = "CLOSING",
                        !.explicit = byDisconnect]
    ELSE socket

SocketInit ==
    /\ sockets = [s \in Slots |-> NoSocket]
    /\ wsField = 0
    /\ reconnectAttempts = 0
    /\ reconnectTimeouts = 0
    /\ awaitingInfo = 0

\* connect(symbol) up to `await this.getWebSocketInfo()`
ConnectCalled ==
    /\ awaitingInfo < MaxAwaiting
    /\ awaitingInfo' = awaitingInfo + 1
    /\ UNCHANGED <<sockets, wsField, reconnectAttempts, reconnectTimeouts>>
    /\ UNCHANGED <<managerVars, adapterVars, transformVars, hubVars,
                   generatorVars>>

\* connect(symbol) from the answer of getWebSocketInfo to the end of the
\* executor: the socket is made, kept in this.ws and given its timeout and
\* its handlers; without an answer or without a server the promise rejects
InfoArrives(infoOk) ==
    /\ awaitingInfo > 0
    /\ awaitingInfo' = awaitingInfo - 1
    /\ IF infoOk
       THEN LET free == {s \in Slots :
                            sockets[s].readyState \in {"none", "CLOSED"}}
                slot == CHOOSE s \in free : \A t \in free : s <= t
            IN  /\ free # {}
                /\ wsField' = slot
                /\ sockets' =
                    Forget([sockets EXCEPT ![slot] = NewSocket], slot)
       ELSE UNCHANGED <<sockets, wsField>>
    /\ UNCHANGED <<reconnectAttempts, reconnectTimeouts>>
    /\ UNCHANGED <<managerVars, adapterVars, transformVars, hubVars,
                   generatorVars>>

\* the callback of the 10000 ms timeout of the connect call that made
\* socket s
ConnectTimeoutFires(s) ==
    /\ sockets[s].timeout = "pending"
    /\ LET connecting ==
            /\ wsField # 0
            /\ sockets[wsField].readyState = "CONNECTING"
           fired == [sockets EXCEPT ![s].timeout = "fired"]
           closed ==
                [fired EXCEPT ![wsField] = Close(fired[wsField], FALSE)]
       IN  sockets' =
                IF connecting
                THEN [closed EXCEPT ![s] = Settle(closed[s], "rejected")]
                ELSE fired
    /\ UNCHANGED <<wsField, reconnectAttempts, reconnectTimeouts,
                   awaitingInfo>>
    /\ UNCHANGED <<managerVars, adapterVars, transformVars, hubVars,
                   generatorVars>>

\* ws.onopen of socket s; `this.ws!.send` throws when this.ws is null or
\* still connecting, and then resolve() is not reached
OnOpen(s) ==
    /\ sockets[s].readyState = "CONNECTING"
    /\ reconnectAttempts' = 0
    /\ LET cleared ==
            [sockets[s] EXCEPT !.readyState = "OPEN", !.opened = TRUE,
                               !.timeout =
                                    IF @ = "pending" THEN "cleared" ELSE @]
           sendThrows ==
            \/ wsField = 0
            \/ wsField # s /\ sockets[wsField].readyState = "CONNECTING"
       IN  sockets' =
            [sockets EXCEPT ![s] =
                IF sendThrows THEN cleared ELSE Settle(cleared, "resolved")]
    /\ UNCHANGED <<wsField, reconnectTimeouts, awaitingInfo>>
    /\ UNCHANGED <<managerVars, adapterVars, transformVars, hubVars,
                   generatorVars>>

\* a variant that schedules a reconnect while the count is at the maximum
HandleReconnectOnceMore(attempts, timeouts) ==
    IF attempts <= MaxReconnectAttempts
    THEN [attempts |-> attempts + 1, timeouts |-> timeouts + 1]
    ELSE [attempts |-> attempts, timeouts |-> timeouts]

\* handleReconnect(symbol): the count and the pending reconnects after it
HandleReconnect(attempts, timeouts) ==
    IF attempts < MaxReconnectAttempts
    THEN [attempts |-> attempts + 1, timeouts |-> timeouts + 1]
    ELSE [attempts |-> attempts, timeouts |-> timeouts]

\* the connection of socket s ends: ws.onerror first when it failed (a
\* socket that never opened always ends that way), then ws.onclose
SocketCloses(s, failed) ==
    /\ Live(sockets[s])
    /\ sockets[s].opened \/ failed
    /\ reconnectAttempts < MaxReconnectAttempts
            => reconnectTimeouts < MaxReconnectTimeouts
    /\ LET after == HandleReconnect(reconnectAttempts, reconnectTimeouts)
           ended == [sockets[s] EXCEPT !.readyState = "CLOSED",
                                       !.timeout = "cleared"]
       IN  /\ reconnectAttempts' = after.attempts
           /\ reconnectTimeouts' = after.timeouts
           /\ sockets' =
                Forget([sockets EXCEPT ![s] =
                            IF failed THEN Settle(ended, "rejected")
                            ELSE ended],
                       wsField)
    /\ UNCHANGED <<wsField, awaitingInfo>>
    /\ UNCHANGED <<managerVars, adapterVars, transformVars, hubVars,
                   generatorVars>>

\* the callback of handleReconnect's setTimeout: this.connect(symbol) up to
\* `await this.getWebSocketInfo()`
ReconnectTimeoutFires ==
    /\ reconnectTimeouts > 0
    /\ awaitingInfo < MaxAwaiting
    /\ reconnectTimeouts' = reconnectTimeouts - 1
    /\ awaitingInfo' = awaitingInfo + 1
    /\ UNCHANGED <<sockets, wsField, reconnectAttempts>>
    /\ UNCHANGED <<managerVars, adapterVars, transformVars, hubVars,
                   generatorVars>>

\* WebSocketService.disconnect()
DisconnectCalled ==
    /\ IF wsField # 0
       THEN sockets' =
                Forget([sockets EXCEPT ![wsField] = Close(@, TRUE)], 0)
       ELSE UNCHANGED sockets
    /\ wsField' = 0
    /\ subscribers' = Cleared
    /\ UNCHANGED <<reconnectAttempts, reconnectTimeouts, awaitingInfo>>
    /\ UNCHANGED <<service, closures, connectionState, isUsingMockData,
                   lastOrderbook, mockDataInterval, intervals,
                   reconnectTimers, ws, delivery>>
    /\ UNCHANGED <<managerVars, adapterVars, transformVars, generatorVars>>

SocketNext ==
    \/ ConnectCalled
    \/ \E ok \in BOOLEAN : InfoArrives(ok)
    \/ \E s \in Slots : ConnectTimeoutFires(s)
    \/ \E s \in Slots : OnOpen(s)
    \/ \E s \in Slots, failed \in BOOLEAN : SocketCloses(s, failed)
    \/ ReconnectTimeoutFires
    \/ DisconnectCalled

-----------------------------------------------------------------------------

\* the hub of the application is the EnhancedWebSocketService singleton
Init ==
    /\ ManagerInit
    /\ AdapterInit
    /\ TransformInit
    /\ GeneratorInit
    /\ SocketInit
    /\ HubInit("EnhancedWebSocketService")

\* the same with a hub object of either class
InitEitherHub ==
    /\ ManagerInit
    /\ AdapterInit
    /\ TransformInit
    /\ GeneratorInit
    /\ SocketInit
    /\ \E class \in Services : HubInit(class)

Next ==
    \/ \E c \in Callers, op \in Operations : DataCall(c, op)
    \/ \E c \in Callers, a \in AdapterKinds, n \in NetOutcomes :
            AttemptSettle(c, a, n)
    \/ \E c \in Callers : BackoffElapsed(c)
    \/ \E s \in Tracked, a \in AdapterKinds, n \in NetOutcomes,
          rt \in ResponseTimes : TestConnection(s, a, n, rt)
    \/ \E s \in Tracked, a \in AdapterKinds, n \in NetOutcomes,
          rt \in ResponseTimes : RefreshHealthStatus(s, a, n, rt)
    \/ \E s \in APISource : SwitchToAPI(s)
    \/ \E s \in APISource : ForceSwitch(s)
    \/ EnableMockMode
    \/ DisableMockMode

Spec == Init /\ [][Next]_vars

SpecAdapter == Init /\ [][AdapterNext]_vars

SpecTransform == Init /\ [][TransformNext]_vars

SpecHub == InitEitherHub /\ [][HubNext]_vars

SpecKlines == Init /\ [][KlinesNext]_vars

SpecOrderbook == Init /\ [][OrderbookNext]_vars

\* a WebSocketService object and its sockets
InitSocket ==
    /\ ManagerInit
    /\ AdapterInit
    /\ TransformInit
    /\ GeneratorInit
    /\ SocketInit
    /\ HubInit("WebSocketService")

SpecSocket == InitSocket /\ [][SocketNext]_vars

TypeOK ==
    /\ fallbackToMock \in BOOLEAN
    /\ currentSource \in APISource
    /\ \A s \in Tracked : apiHealth[s].consecutiveFailures \in 0..MaxFailures

-----------------------------------------------------------------------------
(* Steps the properties speak about *)

AllAtThreshold(h) == \A s \in Tracked : h[s].consecutiveFailures >= MaxRetries

\* an attempt of c rejects (its adapter lets the failure through)
Rejects(c) ==
    \E n \in NetOutcomes :
        /\ Operation("propagating", n).kind = "reject"
        /\ AttemptSettle(c, "propagating", n)

\* an attempt of c resolves
Resolves(c) ==
    \E a \in AdapterKinds, n \in NetOutcomes :
        /\ Operation(a, n).kind = "resolve"
        /\ AttemptSettle(c, a, n)

\* the network call of an attempt of c fails and the shipped adapter answers
\* with its own mock data
SubstitutesSynthetic(c) ==
    \E n \in NetOutcomes \ {"ok"} : AttemptSettle(c, "shipped", n)

\* a probe of s resolves
ProbeSucceeds(s) ==
    \E a \in AdapterKinds, n \in NetOutcomes, rt \in ResponseTimes :
        /\ ~ProbeFails(a, n)
        /\ TestConnection(s, a, n, rt) \/ RefreshHealthStatus(s, a, n, rt)

Suspended(c) == calls[c].pc \in {"inflight", "backoff"}

-----------------------------------------------------------------------------
(* C1: a data call never rejects: in every state each call is idle,        *)
(* suspended at an attempt or a backoff delay, or has resolved, and a      *)
(* resolved call carries a source tag; this includes exhausted retries, a  *)
(* current source without health record, and mock mode.                    *)
C1_NeverRejects ==
    \A c \in Callers :
        /\ calls[c].pc \in {"idle", "inflight", "backoff", "returned"}
        /\ calls[c].pc = "returned" => calls[c].tag \in APISource

\* retries were exhausted and the call resolved with mock data
C1_Witness ==
    \E c \in Callers :
        /\ calls[c].pc = "returned"
        /\ calls[c].invocations = MaxRetries
        /\ calls[c].tag = "mock"

(* C2: a result tagged with a real source carries data obtained from that  *)
(* exchange, and synthetic data (of the generator or of the adapter's own  *)
(* fallback) is tagged 'mock'.                                             *)
C2_TagTellsProvenance ==
    \A c \in Callers :
        calls[c].pc = "returned" =>
            /\ calls[c].tag \in Tracked => calls[c].data = "exchange"
            /\ calls[c].data \in {"generator", "adapterFallback"} =>
                    calls[c].tag = "mock"

(* C3 as stated: when the last attempt of a call rejects, the call has     *)
(* made exactly maxRetries attempts, resolves tagged 'mock', and the       *)
(* source's consecutiveFailures is maxRetries.                             *)
C3_AsStated ==
    [][\A c \in Callers :
        (Rejects(c) /\ calls'[c].pc # "backoff") =>
            /\ calls'[c].pc = "returned"
            /\ calls'[c].tag = "mock"
            /\ calls'[c].invocations = MaxRetries
            /\ apiHealth'[calls[c].source].consecutiveFailures = MaxRetries
      ]_vars

(* C3 amended: a rejected attempt ends the call only when it is attempt    *)
(* number maxRetries; the call then resolves tagged 'mock', and when       *)
(* nothing else updated the source during the call, the source's           *)
(* consecutiveFailures is its value at the start of the call plus          *)
(* maxRetries (maxRetries when the source had none at the start).          *)
C3_Exhaustion ==
    [][\A c \in Callers :
        Rejects(c) =>
            /\ calls[c].invocations < MaxRetries => calls'[c].pc = "backoff"
            /\ calls'[c].pc # "backoff" =>
                /\ calls'[c].pc = "returned"
                /\ calls'[c].tag = "mock"
                /\ calls'[c].invocations = MaxRetries
                /\ startFailures[c] >= 0 =>
                       apiHealth'[calls[c].source].consecutiveFailures =
                           startFailures[c] + MaxRetries
      ]_vars

\* a call exhausted its retries on a source that had no failure before
C3_Witness ==
    \E c \in Callers :
        /\ calls[c].pc = "returned"
        /\ calls[c].tag = "mock"
        /\ calls[c].invocations = MaxRetries
        /\ calls[c].source \in Tracked
        /\ apiHealth[calls[c].source].consecutiveFailures = MaxRetries

(* C4: a call whose attempts rejected k < maxRetries times and then        *)
(* resolved returns tagged with its source after k + 1 attempts, having    *)
(* waited the sum of min(baseDelay * 2^i, maxDelay) for i < k: 0, 1000 or  *)
(* 3000 ms.                                                                *)
RECURSIVE C4_TotalBackoff(_)
C4_TotalBackoff(k) ==
    IF k = 0 THEN 0
    ELSE C4_TotalBackoff(k - 1)
         + (IF 1000 * 2^(k - 1) < 10000 THEN 1000 * 2^(k - 1) ELSE 10000)

C4_RetryThenSuccess ==
    \A c \in Callers :
        (calls[c].pc = "returned" /\ calls[c].invocations > 0) =>
            LET k == calls[c].attempt
            IN  /\ k < MaxRetries
                /\ calls[c].tag # "mock" =>
                    /\ calls[c].tag = calls[c].source
                    /\ calls[c].tag \in Tracked
                    /\ calls[c].data # "generator"
                    /\ calls[c].invocations = k + 1
                    /\ calls[c].waited = C4_TotalBackoff(k)
                    /\ k = 1 => calls[c].waited = 1000
                    /\ k = 2 => calls[c].waited = 3000

\* two rejections, then the exchange's data
C4_Witness ==
    \E c \in Callers :
        /\ calls[c].pc = "returned"
        /\ calls[c].tag \in Tracked
        /\ calls[c].data = "exchange"
        /\ calls[c].attempt = 2
        /\ calls[c].waited = 3000

(* C5: a health update switches the mock flag on exactly when it leaves    *)
(* every tracked source at consecutiveFailures >= maxRetries: an update    *)
(* that leaves some source below the threshold does not change the flag,   *)
(* the only other step that sets the flag is enableMockMode, and a data    *)
(* call started with the flag on makes no adapter call.                    *)
C5_Escalation ==
    [][/\ (apiHealth' # apiHealth /\ AllAtThreshold(apiHealth')) =>
                fallbackToMock'
       /\ (apiHealth' # apiHealth /\ ~AllAtThreshold(apiHealth')) =>
                fallbackToMock' = fallbackToMock
       /\ (~fallbackToMock /\ fallbackToMock') =>
                (AllAtThreshold(apiHealth') \/ EnableMockMode)
       /\ \A c \in Callers, op \in Operations :
            (fallbackToMock /\ DataCall(c, op)) =>
                (calls'[c].pc = "returned" /\ calls'[c].invocations = 0)
      ]_vars

\* all three sources are at the threshold, the flag is on, and a data call
\* has returned mock data without an attempt
C5_Witness ==
    /\ AllAtThreshold(apiHealth)
    /\ fallbackToMock
    /\ \E c \in Callers :
        /\ calls[c].pc = "returned"
        /\ calls[c].invocations = 0
        /\ calls[c].tag = "mock"

(* C6: a data call started while the mock flag is on returns at once with  *)
(* generator data tagged 'mock', with no adapter invocation, no backoff    *)
(* delay, and no change to the health map or to currentSource.             *)
C6_MockModeCall ==
    [][\A c \in Callers, op \in Operations :
        (fallbackToMock /\ DataCall(c, op)) =>
            /\ calls'[c].pc = "returned"
            /\ calls'[c].tag = "mock"
            /\ calls'[c].data = "generator"
            /\ calls'[c].invocations = 0
            /\ calls'[c].waited = 0
            /\ apiHealth' = apiHealth
            /\ currentSource' = currentSource
            /\ fallbackToMock'
      ]_vars

\* mock mode is on with a tracked source selected whose record shows no
\* failure, and a call has returned mock data without an attempt
C6_Witness ==
    /\ fallbackToMock
    /\ currentSource \in Tracked
    /\ apiHealth[currentSource].isHealthy
    /\ \E c \in Callers :
        /\ calls[c].pc = "returned"
        /\ calls[c].tag = "mock"
        /\ calls[c].source = "none"
        /\ calls[c].invocations = 0

(* C7: the mock flag, once on, is switched off only by disableMockMode or  *)
(* forceSwitch: no data call, attempt, backoff, probe or switchToAPI       *)
(* clears it.                                                              *)
C7_Latch ==
    [][(fallbackToMock /\ ~fallbackToMock') =>
            (DisableMockMode \/ \E s \in APISource : ForceSwitch(s))
      ]_vars

\* the flag is still on although a probe has since marked a source healthy
\* while another source is at the threshold
C7_Witness ==
    /\ fallbackToMock
    /\ \E s, r \in Tracked :
        /\ apiHealth[s].isHealthy
        /\ apiHealth[s].responseTime # Undefined
        /\ apiHealth[r].consecutiveFailures >= MaxRetries

C9_SubstituteCountsAsFailure ==
    [][\A c \in Callers :
        SubstitutesSynthetic(c) =>
            LET s == calls[c].source
            IN  /\ ~apiHealth'[s].isHealthy
                /\ apiHealth'[s].errorCount = apiHealth[s].errorCount + 1
                /\ apiHealth'[s].consecutiveFailures =
                        apiHealth[s].consecutiveFailures + 1
      ]_vars

(* C10: a successful request or probe resets consecutiveFailures to 0 and  *)
(* leaves errorCount unchanged, and errorCount never decreases.            *)
C10_ErrorCountCumulative ==
    [][/\ \A s \in Tracked :
            apiHealth'[s].errorCount >= apiHealth[s].errorCount
       /\ \A c \in Callers :
            Resolves(c) =>
                LET s == calls[c].source
                IN  /\ apiHealth'[s].consecutiveFailures = 0
                    /\ apiHealth'[s].errorCount = apiHealth[s].errorCount
       /\ \A s \in Tracked :
            ProbeSucceeds(s) =>
                /\ apiHealth'[s].consecutiveFailures = 0
                /\ apiHealth'[s].errorCount = apiHealth[s].errorCount
      ]_vars

-----------------------------------------------------------------------------
(* C11: currentSource changes only in a step of switchToAPI or of          *)
(* forceSwitch; no data call, attempt, backoff, exhaustion, probe, health  *)
(* update or mock escalation changes it.                                   *)
C11_OnlySwitchesSelect ==
    [][currentSource' # currentSource =>
            \/ \E s \in APISource : SwitchToAPI(s)
            \/ \E s \in APISource : ForceSwitch(s)
      ]_vars

\* a call on the current source exhausted its retries while another source
\* is healthy, and the selection is still the failing source
C11_Witness ==
    \E c \in Callers :
        /\ calls[c].pc = "returned"
        /\ calls[c].tag = "mock"
        /\ calls[c].invocations = MaxRetries
        /\ calls[c].source = currentSource
        /\ currentSource # PreferredOrder[1]
        /\ apiHealth[currentSource].consecutiveFailures >= MaxRetries
        /\ apiHealth[PreferredOrder[1]].isHealthy

\* the request a probe sends fails on the network or in its answer
ProbeRequestFails(net) == net # "ok"

(* C13 as stated: testConnection(source) resolves (to a boolean), true     *)
(* when the ticker request of the probe succeeds and false when it fails,  *)
(* after one attempt and no backoff, and the source's health record is     *)
(* healthy exactly when it returned true.                                  *)
C13_ProbeTellsOutcome ==
    [][\A s \in Tracked, a \in AdapterKinds, n \in NetOutcomes,
          rt \in ResponseTimes :
        TestConnection(s, a, n, rt) =>
            LET r == HealthCheck(apiHealth, fallbackToMock, s, a, n, rt)
            IN  /\ r.returns \in BOOLEAN
                /\ r.returns = ~ProbeRequestFails(n)
                /\ apiHealth'[s].isHealthy = r.returns
                /\ calls' = calls
                /\ apiHealth'[s].consecutiveFailures =
                     IF r.returns THEN 0
                     ELSE apiHealth[s].consecutiveFailures + 1
      ]_vars

(* C14: within one data call the attempts are sequential: the call makes   *)
(* at most maxRetries attempts, one per iteration; a further attempt       *)
(* starts only from the backoff delay that follows a failed attempt, and   *)
(* adds that delay to the time waited; a backoff delay starts only after a *)
(* failed attempt that is not the last; the last failed attempt ends the   *)
(* call without any further wait.                                          *)
C14_SequentialAttempts ==
    [][\A c \in Callers :
        /\ calls'[c].invocations <= MaxRetries
        /\ Suspended(c)' => calls'[c].invocations = calls'[c].attempt + 1
        /\ (Suspended(c) /\ calls'[c].invocations # calls[c].invocations) =>
                /\ calls[c].pc = "backoff"
                /\ calls'[c].pc = "inflight"
                /\ calls'[c].invocations = calls[c].invocations + 1
                /\ calls'[c].waited =
                        calls[c].waited + BackoffDelay(calls[c].attempt)
        /\ (calls'[c].pc = "backoff" /\ calls[c].pc # "backoff") =>
                /\ Rejects(c)
                /\ calls[c].invocations < MaxRetries
        /\ (Rejects(c) /\ calls[c].invocations = MaxRetries) =>
                /\ calls'[c].pc = "returned"
                /\ calls'[c].waited = calls[c].waited
      ]_vars

\* a call ended at its last failed attempt having waited the two delays
C14_Witness ==
    \E c \in Callers :
        /\ calls[c].pc = "returned"
        /\ calls[c].attempt = MaxRetries - 1
        /\ calls[c].data = "generator"
        /\ calls[c].waited = BackoffDelay(0) + BackoffDelay(1)

(* C15: while mock mode is on (or is being switched on), a data call that  *)
(* is at an attempt or in a backoff delay is not interrupted: only its own *)
(* attempt or backoff steps change it, the backoff is followed by the next *)
(* attempt, a resolving attempt returns the source's data under the        *)
(* source's tag, and a rejected attempt that is not the last is followed   *)
(* by a backoff.                                                           *)
C15_MockModeSparesRunningCall ==
    [][\A c \in Callers :
        (Suspended(c) /\ (fallbackToMock \/ fallbackToMock')) =>
            /\ calls'[c] # calls[c] =>
                    \/ BackoffElapsed(c)
                    \/ \E a \in AdapterKinds, n \in NetOutcomes :
                            AttemptSettle(c, a, n)
            /\ BackoffElapsed(c) =>
                    /\ calls'[c].pc = "inflight"
                    /\ calls'[c].attempt = calls[c].attempt + 1
            /\ Resolves(c) =>
                    /\ calls'[c].pc = "returned"
                    /\ calls'[c].tag = calls[c].source
                    /\ calls'[c].data # "generator"
            /\ (Rejects(c) /\ calls[c].invocations < MaxRetries) =>
                    calls'[c].pc = "backoff"
      ]_vars

\* a call is at its third attempt while mock mode is on and every source
\* is at the threshold
C15_Witness ==
    \E c \in Callers :
        /\ calls[c].pc = "inflight"
        /\ calls[c].attempt = MaxRetries - 1
        /\ fallbackToMock
        /\ AllAtThreshold(apiHealth)

(* C12 as stated: a data method of an adapter never rejects; it resolves   *)
(* with a value of the shared schema (the decoded answer of the exchange,  *)
(* or the adapter's own synthetic substitute), with the substitute         *)
(* whenever the request failed (network error, non-2xx status, malformed   *)
(* or error-coded body), and it issued its fetch calls once.               *)
C12_AdapterAbsorbsFailure ==
    /\ adapterCall.pc \in {"idle", "fetching", "parsing", "resolved"}
    /\ adapterCall.pc = "resolved" =>
        /\ adapterCall.result \in {"exchange", "adapterFallback"}
        /\ adapterCall.net # "ok" => adapterCall.result = "adapterFallback"
        /\ adapterCall.fetches = Fetches(adapterCall.exchange, adapterCall.op)

(* C16 as stated: a call of transformToFinancialData with the arguments of *)
(* the call before it returns the same output, whatever switchToAPI,       *)
(* forceSwitch, mock-mode change or escalation happened in between.        *)
C16_TransformIsPure ==
    [][\A t \in Tickers, k \in KlineSeries :
        (/\ Transform(t, k)
         /\ lastTransform # << >>
         /\ lastTransform[1].ticker = t
         /\ lastTransform[1].klines = k) =>
            SameOutput(lastTransform'[1].output, lastTransform[1].output)
      ]_vars

(* C22 as stated: the stored responseTime of a source changes only in a    *)
(* step in which a health probe of that source succeeds; data requests and *)
(* failed probes leave it as it was.                                       *)
C22_OnlyProbeWritesResponseTime ==
    [][\A s \in Tracked :
        apiHealth'[s].responseTime # apiHealth[s].responseTime =>
            ProbeSucceeds(s)
      ]_vars

(* C25 as stated: whenever mock mode is off, some tracked source has       *)
(* consecutiveFailures below maxRetries.                                   *)
C25_OffMeansSomeSourceBelow ==
    ~fallbackToMock =>
        \E s \in Tracked : apiHealth[s].consecutiveFailures < MaxRetries

(* C25 amended: a state with mock mode off and all three sources at or     *)
(* above the failure threshold is entered only by disableMockMode or       *)
(* forceSwitch, and no health update leaves the aggregator in such a       *)
(* state: the next failed update switches mock mode on again.              *)
C25_OffOnlyByHand ==
    [][(~fallbackToMock' /\ AllAtThreshold(apiHealth')) =>
            \/ /\ ~fallbackToMock
               /\ AllAtThreshold(apiHealth)
               /\ apiHealth' = apiHealth
            \/ DisableMockMode
            \/ \E s \in APISource : ForceSwitch(s)
      ]_vars

\* mock mode was switched off with every source at the threshold, and a
\* data call is at an attempt
C25_Witness ==
    /\ ~fallbackToMock
    /\ AllAtThreshold(apiHealth)
    /\ \E c \in Callers : calls[c].pc = "inflight"

(* C26: a suspended data call keeps the source it started with: its frame  *)
(* names the same source at every attempt and backoff, the settling of an  *)
(* attempt updates the health record of that source only, and the call     *)
(* returns tagged with that source or 'mock', with that source when the    *)
(* attempt resolved, whatever switchToAPI and forceSwitch did meanwhile.   *)
C26_CallKeepsItsSource ==
    [][\A c \in Callers :
        Suspended(c) =>
            /\ calls'[c].source = calls[c].source
            /\ (\E a \in AdapterKinds, n \in NetOutcomes :
                    AttemptSettle(c, a, n)) =>
                    \A s \in Tracked \ {calls[c].source} :
                        apiHealth'[s] = apiHealth[s]
            /\ calls'[c].pc = "returned" =>
                    calls'[c].tag \in {calls[c].source, "mock"}
            /\ Resolves(c) => calls'[c].tag = calls[c].source
      ]_vars

\* a call returned the data of the source it started with after a retry,
\* while another source is selected
C26_Witness ==
    \E c \in Callers :
        /\ calls[c].pc = "returned"
        /\ calls[c].invocations > 1
        /\ calls[c].tag = calls[c].source
        /\ calls[c].tag \in Tracked
        /\ calls[c].tag # currentSource

-----------------------------------------------------------------------------
(* Steps of the hubs the properties speak about *)

\* notifySubscribers(channel, ...) runs in this step
PublicationOn(channel) ==
    \/ /\ channel = "orderbook"
       /\ lastOrderbook # Undefined
       /\ \E id \in 1..MaxIntervals, t \in SUBSET Callbacks : Tick(id, t)
    \/ /\ channel = "orderbook"
       /\ \E t \in SUBSET Callbacks : SocketMessage(TRUE, t)
    \/ /\ channel = "connection"
       /\ \E t \in SUBSET Callbacks : Connect(t) \/ ReconnectTimerFires(t)

\* every registration but that of cb on channel is what it was
OthersKeepTheirPlace(channel, cb) ==
    \A ch \in Channels, other \in Callbacks :
        <<ch, other>> # <<channel, cb>> =>
            Registered(subscribers', ch, other) =
                Registered(subscribers, ch, other)

(* C17: in both hubs the closure returned by subscribe(channel, cb)        *)
(* removes cb from that channel and nothing else, subscribe registers cb   *)
(* and removes nothing, and no channel is ever mapped to an empty set; so  *)
(* after subscribe and unsubscribe calls every callback that was not       *)
(* unsubscribed is still registered.                                       *)
C17_ExactUnsubscribe ==
    /\ [](\A ch \in Channels :
            subscribers[ch].has => Len(subscribers[ch].callbacks) > 0)
    /\ [][\A ch \in Channels, cb \in Callbacks :
            /\ Unsubscribe(ch, cb) =>
                    /\ ~Registered(subscribers', ch, cb)
                    /\ OthersKeepTheirPlace(ch, cb)
            /\ Subscribe(ch, cb) =>
                    /\ Registered(subscribers', ch, cb)
                    /\ OthersKeepTheirPlace(ch, cb)
         ]_vars

\* of two callbacks on 'orderbook' one was unsubscribed, the other is left,
\* and the channel that lost its only callback has no set
C17_Witness ==
    /\ <<"orderbook", "ui">> \in closures
    /\ subscribers["orderbook"] = [has |-> TRUE, callbacks |-> <<"health">>]
    /\ <<"connection", "ui">> \in closures
    /\ subscribers["connection"] = NoSet
    /\ connectionState = "disconnected"
    /\ ws = "open"

(* C18 as stated: in both hubs a publication on a channel invokes every    *)
(* callback subscribed to the channel, also when some of them throw, and   *)
(* nothing a callback throws leaves notifySubscribers.                     *)
C18_IsolatedDelivery ==
    [][\A ch \in Channels :
        PublicationOn(ch) =>
            /\ delivery'.channel = ch
            /\ delivery'.invoked = subscribers[ch].callbacks
            /\ ~delivery'.escaped
      ]_vars

(* C19 as stated: a callback registered on EnhancedWebSocketService stays  *)
(* registered in every step but the call of its own unsubscribe closure,   *)
(* and is invoked by every publication on its channel.                     *)
C19_OnlyOwnUnsubscribeRemoves ==
    [][\A ch \in Channels, cb \in Callbacks :
        (/\ service = "EnhancedWebSocketService"
         /\ Registered(subscribers, ch, cb)
         /\ ~Unsubscribe(ch, cb)) =>
            /\ Registered(subscribers', ch, cb)
            /\ PublicationOn(ch) =>
                    \E i \in DOMAIN delivery'.invoked :
                        delivery'.invoked[i] = cb
      ]_vars

\* connect() runs, called directly or by the timer of forceReconnect
Connects == \E t \in SUBSET Callbacks : Connect(t) \/ ReconnectTimerFires(t)

(* C20: connect() leaves EnhancedWebSocketService 'connected', using mock  *)
(* data, with a running interval timer; while it is connected its timer is *)
(* running; every tick replaces lastOrderbook by a perturbation of it and  *)
(* publishes that to every subscriber of 'orderbook', and lastOrderbook is *)
(* the orderbook published last; the service is never 'connected' while    *)
(* isUsingMockData is false.                                               *)
C20_MockStream ==
    /\ [](connectionState = "connected" =>
            /\ isUsingMockData
            /\ mockDataInterval # Undefined
            /\ mockDataInterval[1] \in intervals)
    /\ [](delivery.data.kind = "orderbook" =>
            lastOrderbook = Some(delivery.data))
    /\ [][Connects =>
            /\ connectionState' = "connected"
            /\ isUsingMockData'
            /\ mockDataInterval' # Undefined
         ]_vars
    /\ [][\A id \in 1..MaxIntervals, t \in SUBSET Callbacks :
            (Tick(id, t) /\ lastOrderbook # Undefined) =>
                /\ lastOrderbook' # Undefined
                /\ lastOrderbook'[1].updates = lastOrderbook[1].updates + 1
                /\ delivery'.channel = "orderbook"
                /\ delivery'.data = lastOrderbook'[1]
                /\ delivery'.invoked = subscribers["orderbook"].callbacks
         ]_vars

\* the second tick after connect() has been published to a subscriber
C20_Witness ==
    /\ connectionState = "connected"
    /\ isUsingMockData
    /\ delivery.channel = "orderbook"
    /\ delivery.data.updates = MaxUpdates
    /\ delivery.invoked # << >>

(* C28 as stated: EnhancedWebSocketService never has more than one         *)
(* mock-data interval timer running, and none while it is disconnected.    *)
C28_OneTimerAtMost ==
    /\ Cardinality(intervals) <= 1
    /\ connectionState = "disconnected" => intervals = {}

-----------------------------------------------------------------------------
(* Klines and orderbooks *)

\* ascending by openTime, and no kline ends after the next begins
Chained(klines) ==
    \A i \in 1..(Len(klines) - 1) :
        /\ klines[i].openTime < klines[i + 1].openTime
        /\ klines[i].closeTime <= klines[i + 1].openTime

\* C23: getKlines(symbol, interval, n) of the synthetic generator, and of an
\* adapter whose exchange answered the n candles asked for, newest first,
\* returns exactly n klines, strictly ascending by openTime, with
\* closeTime[i] <= openTime[i+1] for every consecutive pair.
C23_KlinesChained ==
    \A i \in 1..Len(lastKlines) :
        LET call == lastKlines[i]
        IN  (call.source = "mock" \/ (call.answered /\ call.count = call.limit))
                => /\ Len(call.klines) = call.limit
                   /\ Chained(call.klines)

\* C24: every orderbook of the synthetic generator, from generateOrderbook
\* and after any number of generateRealtimeUpdate steps, has 20 bid and 20
\* ask levels, bids strictly descending by price, asks strictly ascending by
\* price, and a best ask strictly above the best bid.
C24_WellFormedBook ==
    \A n \in 1..Len(currentOrderbook) :
        LET book == currentOrderbook[n]
        IN  /\ Len(book.bids) = 20
            /\ Len(book.asks) = 20
            /\ \A i \in 1..(Len(book.bids) - 1) :
                    book.bids[i] > book.bids[i + 1]
            /\ \A i \in 1..(Len(book.asks) - 1) :
                    book.asks[i] < book.asks[i + 1]
            /\ book.asks[1] > book.bids[1]

-----------------------------------------------------------------------------
(* The sockets of WebSocketService *)

\* the timeout of the connect call that made socket s runs its callback
TimeoutRuns(s) ==
    sockets[s].timeout = "pending" /\ sockets'[s].timeout = "fired"

\* the close event of socket s is delivered
CloseEvent(s) ==
    Live(sockets[s]) /\ sockets'[s].readyState \in {"CLOSED", "none"}

\* C21: when the timeout of a connect call runs and the socket that call
\* made is still CONNECTING, that socket is closed and the call's promise
\* rejects; the timeout closes no socket that has opened, and it is no
\* longer pending once the socket has opened or has ended.
C21_ConnectTimeout ==
    [][\A s \in Slots :
        /\ (TimeoutRuns(s) /\ sockets[s].readyState = "CONNECTING")
                => /\ sockets'[s].readyState = "CLOSING"
                   /\ sockets'[s].promise = "rejected"
        /\ TimeoutRuns(s)
                => \A t \in Slots :
                        sockets[t].readyState = "OPEN"
                            => sockets'[t].readyState = "OPEN"
        /\ sockets'[s].readyState \in {"OPEN", "CLOSED"}
                => sockets'[s].timeout # "pending"]_vars

\* C29: the close event of a socket that disconnect() closed schedules no
\* reconnect.
C29_NoReconnectAfterDisconnect ==
    [][\A s \in Slots :
        (sockets[s].explicit /\ CloseEvent(s))
            => reconnectTimeouts' = reconnectTimeouts]_vars

\* C30: reconnectAttempts never exceeds maxReconnectAttempts; a close event
\* met with the count at the maximum schedules no reconnect, no step
\* schedules more than one, and the open event of a socket sets the count
\* to 0.
C30_BoundedReconnects ==
    [][/\ reconnectAttempts' <= MaxReconnectAttempts
       /\ reconnectTimeouts' <= reconnectTimeouts + 1
       /\ reconnectAttempts = MaxReconnectAttempts
            => reconnectTimeouts' <= reconnectTimeouts
       /\ (\E s \in Slots : /\ sockets[s].readyState = "CONNECTING"
                            /\ sockets'[s].readyState = "OPEN")
            => reconnectAttempts' = 0]_vars

C30_Witness ==
    /\ reconnectAttempts = MaxReconnectAttempts
    /\ reconnectTimeouts = 0
    /\ \E s \in Slots : Live(sockets[s])

=============================================================================
